---- MODULE Spec2Model ----
\* State machine of vnpy_portfoliostrategy.template.StrategyTemplate: the
\* position map, the active-order set, and the command surface towards the
\* strategy engine.
EXTENDS Integers, Sequences, FiniteSets, TLC

\* ---------------------------------------------------------------- bounds
\* Number of order identifiers the engine hands out in one run.
MaxOrders == 2
\* Number of trade events delivered in one run.
MaxTrades == 3
\* Largest trade volume.
MaxVolume == 2
\* Depth of the interpreter's call stack left to a callback.
RecursionLimit == 3
\* Number of StopOrder objects created in one run.
MaxStops == 2

\* ---------------------------------------------------------------- inputs
Symbols == {"BTCUSDT.BINANCE", "ETHUSDT.BINANCE"}
Directions == {"LONG", "SHORT", "NET"}
Offsets == {"OPEN", "CLOSE"}
ActiveStatuses == {"SUBMITTING", "NOTTRADED", "PARTTRADED"}
Statuses == {"NOTTRADED", "CANCELLED"}
Wrappers == {"send_order", "buy", "sell", "short", "cover"}

\* An identifier of an order that belongs to somebody else: the engine never
\* returns it to this strategy.
ForeignId == 0
EngineIds == 1..MaxOrders
AllIds == {ForeignId} \cup EngineIds

\* Arguments of a submission. buy, sell, short and cover take no direction and
\* no offset: "-" stands for the absent argument.
Requests ==
    [vt_symbol : {"BTCUSDT.BINANCE"}, direction : Directions \ {"NET"},
     offset : Offsets, price : {10}, volume : {1}, lock : {FALSE}, net : {FALSE}]
WrapperRequests ==
    [vt_symbol : {"BTCUSDT.BINANCE"}, direction : {"-"}, offset : {"-"},
     price : {10}, volume : {1}, lock : {FALSE}, net : {FALSE}]
Calls ==
    ({"send_order"} \X Requests) \cup ((Wrappers \ {"send_order"}) \X WrapperRequests)

\* Numbers of identifiers the engine returns for one submission: none, one,
\* or two child orders.
SplitSizes == {0, 1, 2}

\* The concrete strategy class: the names it declares in `parameters` and in
\* `variables` (lines 19-20), and the class attributes behind them.
ClassParameters == <<"fast_window", "slow_window">>
ClassDefaults == [fast_window |-> 10, slow_window |-> 20, fast_ma |-> 0]
ClassVariables == <<"fast_ma">>
\* Settings handed to __init__ and update_setting: any keys out of two
\* declared parameters and one name the class does not declare.
SettingKeys == {"fast_window", "slow_window", "unknown_key"}
SettingValues == {1, 2}
Settings == UNION {[K -> SettingValues] : K \in SUBSET SettingKeys}
\* Instrument lists handed to __init__: the traded instruments, and a key no
\* gateway knows.
SymbolLists == {<<"BTCUSDT.BINANCE", "ETHUSDT.BINANCE">>, <<"NOSUCH.NOWHERE">>}

Trades == [vt_symbol : Symbols, direction : Directions, volume : 1..MaxVolume]

\* The inputs of the runs that mix every operation: one fill per instrument,
\* one plain send_order and one command, each split by the engine into
\* MaxOrders child orders, and callbacks and cancellations for the foreign
\* identifier and the first identifier the engine issues.
FrameTrades ==
    {t \in Trades : \/ t.vt_symbol = "BTCUSDT.BINANCE" /\ t.direction = "LONG" /\ t.volume = 1
                    \/ t.vt_symbol = "ETHUSDT.BINANCE" /\ t.direction = "SHORT" /\ t.volume = MaxVolume}
FrameCalls ==
    {c \in Calls : \/ c[1] = "buy"
                   \/ c[1] = "send_order" /\ c[2].direction = "SHORT" /\ c[2].offset = "CLOSE"}
FrameIds == {ForeignId, ForeignId + 1}
Orders == [vt_orderid : AllIds, status : Statuses]

\* Inputs of the StopOrder part: the members of StopOrderStatus, the status
\* argument of the constructor ("default" when it is left out), trigger prices
\* and prices of incoming market data.
StopOrderStatuses == {"WAITING", "CANCELLED", "TRIGGERED"}
StatusArguments == {"default", "CANCELLED"}
TriggerPrices == {100}
TickPrices == {99, 101}
StopIds == 1..MaxStops

FrameOrders == {o \in Orders : o.vt_orderid \in FrameIds}

VARIABLES
    overrides,        \* the concrete strategy class defines its own on_order
    inited,           \* self.inited
    trading,          \* self.trading
    pos_data,         \* self.pos_data (defaultdict(int)): keys present -> value
    active_orderids,  \* self.active_orderids
    engine_next,      \* next identifier the engine will hand out
    so_pc,            \* send_order: "idle", or "called" between lines 174 and 178
    so_ids,           \* vt_orderids returned by the engine, not yet recorded
    ca_pc,            \* cancel_all: "idle", or "iter" inside the for loop
    it_used,          \* set iterator: size of the set when it was created
    it_todo,          \* set iterator: entries that lie ahead of its position
    ca_snapshot,      \* history: active_orderids when cancel_all was called
    ca_log,           \* history: cancel requests this cancel_all has issued
    ca_trading,       \* history: trading was true at every step of this call
    terminal_seen,    \* history: ids whose non-active status was delivered
    trade_log,        \* history: trade events delivered, in order
    vt_symbols,       \* self.vt_symbols
    attrs,            \* instance attributes set by setattr: name -> value
    variables_attr,   \* self.variables as line 46 leaves it
    stop_orders,      \* StopOrder objects by stop_orderid
    stop_lists,       \* list objects on the heap: reference -> content
    last              \* history: what the last operation did

vars == <<overrides, inited, trading, pos_data, active_orderids, engine_next,
          so_pc, so_ids, ca_pc, it_used, it_todo, ca_snapshot, ca_log,
          ca_trading, terminal_seen, trade_log, vt_symbols, attrs,
          variables_attr, stop_orders, stop_lists, last>>

flagVars == <<inited, trading>>
sendVars == <<engine_next, so_pc, so_ids>>
cancelVars == <<ca_pc, it_used, it_todo, ca_snapshot, ca_log, ca_trading>>
reflVars == <<vt_symbols, attrs, variables_attr>>
stopVars == <<stop_orders, stop_lists>>

\* ---------------------------------------------------------------- helpers
\* StrategyTemplate.get_pos: self.pos_data.get(vt_symbol, 0)
get_pos(pos, vt_symbol) ==
    IF vt_symbol \in DOMAIN pos THEN pos[vt_symbol] ELSE 0

\* OrderData.is_active(), as template.py:139 uses it
is_active(order) == order.status \in ActiveStatuses

\* Set of the members of a sequence
Range(s) == {s[i] : i \in 1..Len(s)}

\* ---------------------------------------------------------------- update_trade
\* Variant of update_trade whose else branch adds the volume as well.
update_trade_always_add(pos, trade) ==
    LET k == trade.vt_symbol
        new == [s \in DOMAIN pos \cup {k} |->
                   IF s = k THEN get_pos(pos, k) + trade.volume ELSE pos[s]]
    IN [pos_data |-> new, hooks |-> <<new>>]

\* Variant of update_trade that calls on_trade before it touches pos_data.
update_trade_hook_first(pos, trade) ==
    LET k == trade.vt_symbol
        delta == IF trade.direction = "LONG" THEN trade.volume ELSE 0 - trade.volume
        new == [s \in DOMAIN pos \cup {k} |->
                   IF s = k THEN get_pos(pos, k) + delta ELSE pos[s]]
    IN [pos_data |-> new, hooks |-> <<pos>>]

\* Variant of update_trade that applies the trade to every instrument held.
update_trade_every_symbol(pos, trade) ==
    LET k == trade.vt_symbol
        delta == IF trade.direction = "LONG" THEN trade.volume ELSE 0 - trade.volume
        new == [s \in DOMAIN pos \cup {k} |-> get_pos(pos, s) + delta]
    IN [pos_data |-> new, hooks |-> <<new>>]

\* StrategyTemplate.update_trade: the position map after the call, and what
\* each invocation of the on_trade hook found in self.pos_data.
update_trade(pos, trade) ==
    LET k == trade.vt_symbol
        old == get_pos(pos, k)
        val == IF trade.direction = "LONG"
               THEN old + trade.volume
               ELSE old - trade.volume
        new == [s \in DOMAIN pos \cup {k} |-> IF s = k THEN val ELSE pos[s]]
    IN [pos_data |-> new, hooks |-> <<new>>]

\* ---------------------------------------------------------------- send_order
\* Variant of the commands in which sell and cover pass Offset.OPEN.
wrapper_args_always_open(via, direction, offset) ==
    CASE via = "buy" -> [direction |-> "LONG", offset |-> "OPEN"]
      [] via = "sell" -> [direction |-> "SHORT", offset |-> "OPEN"]
      [] via = "short" -> [direction |-> "SHORT", offset |-> "OPEN"]
      [] via = "cover" -> [direction |-> "LONG", offset |-> "OPEN"]
      [] OTHER -> [direction |-> direction, offset |-> offset]

\* The (direction, offset) a command passes on to send_order (lines 144-158);
\* send_order itself passes on what its caller gave.
wrapper_args(via, direction, offset) ==
    CASE via = "buy" -> [direction |-> "LONG", offset |-> "OPEN"]
      [] via = "sell" -> [direction |-> "SHORT", offset |-> "CLOSE"]
      [] via = "short" -> [direction |-> "SHORT", offset |-> "OPEN"]
      [] via = "cover" -> [direction |-> "LONG", offset |-> "CLOSE"]
      [] OTHER -> [direction |-> direction, offset |-> offset]

\* What send_order hands to strategy_engine.send_order (lines 174-176) when
\* the command `via` was called with the arguments `req`.
engine_request(via, req) ==
    LET w == wrapper_args(via, req.direction, req.offset)
    IN [vt_symbol |-> req.vt_symbol, direction |-> w.direction,
        offset |-> w.offset, price |-> req.price, volume |-> req.volume,
        lock |-> req.lock, net |-> req.net]

\* Variant of send_order without the check of self.trading.
send_order_rejects_never(trd) == FALSE

\* send_order, lines 171-172: if not self.trading: return []
send_order_rejects(trd) == ~trd

\* Variant of line 178 that assigns the new identifiers instead of adding them.
send_order_record_replace(active, vt_orderids) == Range(vt_orderids)

\* send_order, line 178: self.active_orderids.update(vt_orderids)
send_order_record(active, vt_orderids) == active \cup Range(vt_orderids)

\* ---------------------------------------------------------------- on_order
\* Lines 137-140 of the second on_order definition.
remove_inactive(active, order) ==
    IF ~is_active(order) /\ order.vt_orderid \in active
    THEN active \ {order.vt_orderid}
    ELSE active

\* The on_order a subclass defines: it is handed the order and finds
\* self.active_orderids as it is at that moment. `updates` counts the runs of
\* lines 139-140, of which this function has none.
user_on_order(active, order) ==
    [active |-> active, hooks |-> <<order.vt_orderid \in active>>, err |-> "none",
     updates |-> 0]

\* StrategyTemplate.on_order as the class ends up defining it (the definition
\* of line 135 replaces the one of line 122), entered at stack depth `depth`.
\* Line 142 calls self.on_order(order): the subclass's on_order when there is
\* one, and this same function otherwise.
RECURSIVE template_on_order(_, _, _, _)
template_on_order(active, order, ovr, depth) ==
    IF depth > RecursionLimit
    THEN [active |-> active, hooks |-> <<>>, err |-> "RecursionError",
          updates |-> 0]
    ELSE LET a1 == remove_inactive(active, order)
             r == IF ovr
                  THEN user_on_order(a1, order)
                  ELSE template_on_order(a1, order, ovr, depth + 1)
         IN [r EXCEPT !.updates = @ + 1]

\* strategy.on_order(order): attribute lookup on the instance finds the
\* subclass's on_order first.
bound_on_order(active, order, ovr) ==
    IF ovr
    THEN user_on_order(active, order)
    ELSE template_on_order(active, order, ovr, 1)

\* ---------------------------------------------------------------- cancel
\* Variant of cancel_order without the check of self.trading.
cancel_order_unguarded(trd, vt_orderid) == <<vt_orderid>>

\* StrategyTemplate.cancel_order: the requests it sends to the engine.
cancel_order(trd, vt_orderid) ==
    IF trd THEN <<vt_orderid>> ELSE <<>>

\* ---------------------------------------------------------------- reflection
\* __init__, line 46: the value assigned to self.variables. list.extend
\* returns None, so the attribute is None whatever the class declares.
init_variables(class_variables) == [none |-> TRUE, names |-> <<>>]

\* Variant of update_setting that sets every key of the setting.
update_setting_every_key(a, setting) ==
    [n \in DOMAIN a \cup DOMAIN setting |->
        IF n \in DOMAIN setting THEN setting[n] ELSE a[n]]

\* update_setting, lines 51-55: the instance attributes after the call.
update_setting(a, setting) ==
    LET hit == Range(ClassParameters) \cap DOMAIN setting
    IN [n \in DOMAIN a \cup hit |-> IF n \in hit THEN setting[n] ELSE a[n]]

\* getattr(self, name): the instance attribute, else the class attribute.
getattr(a, name) == IF name \in DOMAIN a THEN a[name] ELSE ClassDefaults[name]

\* get_class_parameters, lines 57-63
get_class_parameters ==
    [n \in Range(ClassParameters) |-> ClassDefaults[n]]

\* get_parameters, lines 65-70
get_parameters(a) == [n \in Range(ClassParameters) |-> getattr(a, n)]

\* The value getattr finds for a name of the variable list.
variable_value(a, name, ini, trd, pos) ==
    CASE name = "inited" -> ini
      [] name = "trading" -> trd
      [] name = "pos_data" -> pos
      [] OTHER -> getattr(a, name)

\* get_variables, lines 72-77: iterating None raises TypeError.
get_variables(va, a, ini, trd, pos) ==
    IF va.none
    THEN [err |-> "TypeError", ret |-> <<>>]
    ELSE [err |-> "none",
          ret |-> [n \in Range(va.names) |-> variable_value(a, n, ini, trd, pos)]]

\* get_data, lines 79-89: the dict is built entry by entry, so an error of
\* get_variables is the error of get_data.
get_data(va, a, syms, ini, trd, pos) ==
    LET v == get_variables(va, a, ini, trd, pos)
    IN IF v.err # "none"
       THEN [err |-> v.err, ret |-> <<>>]
       ELSE [err |-> "none",
             ret |-> [vt_symbols |-> syms, parameters |-> get_parameters(a),
                      variables |-> v.ret]]

\* ---------------------------------------------------------------- StopOrder
\* Variant of the vt_orderids default in which every instance gets the one
\* list made when the class was defined.
default_vt_orderids_shared(heap) ==
    [heap |-> IF heap = <<>> THEN <<<<>>>> ELSE heap, ref |-> 1]

\* field(default_factory=list): each construction makes a new empty list.
\* `heap` holds the list objects, `ref` is the place of the new one.
default_vt_orderids(heap) ==
    [heap |-> Append(heap, <<>>), ref |-> Len(heap) + 1]

\* StopOrder(...): the dataclass constructor and __post_init__. `status` is
\* "default" when the caller passes none.
StopOrder(heap, direction, price, stop_orderid, status) ==
    LET l == default_vt_orderids(heap)
    IN [heap |-> l.heap,
        obj |-> [symbol |-> "BTCUSDT", exchange |-> "BINANCE",
                 direction |-> direction, offset |-> "OPEN", price |-> price,
                 volume |-> 1, stop_orderid |-> stop_orderid,
                 vt_orderids |-> l.ref,
                 status |-> IF status = "default" THEN "WAITING" ELSE status,
                 reason |-> "",
                 vt_symbol |-> "BTCUSDT.BINANCE"]]

\* stop_order.vt_orderids, read through the reference.
vt_orderids_of(orders, heap, i) == heap[orders[i].vt_orderids]

\* Variant of the trigger test that does not look at the status.
stop_triggers_any_status(stop, price) ==
    IF stop.direction = "LONG" THEN price >= stop.price ELSE price <= stop.price

\* The manager's trigger test: the stop order is Waiting and the price meets
\* its trigger, at or above it for a buy stop, at or below it for a sell stop.
stop_triggers(stop, price) ==
    /\ stop.status = "WAITING"
    /\ IF stop.direction = "LONG" THEN price >= stop.price ELSE price <= stop.price

\* ---------------------------------------------------------------- side channels
\* Variant of put_event without the check of self.inited.
put_event_ungated(ini) == <<"put_strategy_event">>

\* StrategyTemplate.put_event: the calls it makes on the engine.
put_event(ini) ==
    IF ini THEN <<"put_strategy_event">> ELSE <<>>

\* StrategyTemplate.sync_data: the calls it makes on the engine.
sync_data(trd) ==
    IF trd THEN <<"sync_strategy_data">> ELSE <<>>

\* ---------------------------------------------------------------- state
\* __init__, lines 22-49: the instance built from a setting and a list of
\* instrument keys. Nothing in it looks at what the setting or the list holds
\* beyond line 54, and nothing in it raises.
InitWith(setting, syms) ==
    /\ vt_symbols = syms
    /\ attrs = update_setting(<<>>, setting)
    /\ variables_attr = init_variables(ClassVariables)
    /\ stop_orders = <<>>
    /\ stop_lists = <<>>
    /\ last = [op |-> "__init__", err |-> "none", setting |-> setting,
               pre_attrs |-> <<>>]
    /\ overrides \in BOOLEAN
    /\ inited = FALSE
    /\ trading = FALSE
    /\ pos_data = <<>>
    /\ active_orderids = {}
    /\ engine_next = 1
    /\ so_pc = "idle"
    /\ so_ids = <<>>
    /\ ca_pc = "idle"
    /\ it_used = 0
    /\ it_todo = {}
    /\ ca_snapshot = {}
    /\ ca_log = <<>>
    /\ ca_trading = FALSE
    /\ terminal_seen = {}
    /\ trade_log = <<>>

\* The instance the order path and the trade path start from.
Init == InitWith(<<>>, <<"BTCUSDT.BINANCE", "ETHUSDT.BINANCE">>)

\* Any construction.
InitReflect == \E setting \in Settings, syms \in SymbolLists : InitWith(setting, syms)

\* Engine: init_strategy, start_strategy, stop_strategy set the two flags.
EngineInit ==
    /\ ~inited
    /\ inited' = TRUE
    /\ last' = [op |-> "engine_init", err |-> "none"]
    /\ UNCHANGED <<reflVars, stopVars, overrides, trading, pos_data, active_orderids, sendVars,
                   cancelVars, terminal_seen, trade_log>>

EngineStart ==
    /\ inited
    /\ ~trading
    /\ trading' = TRUE
    /\ last' = [op |-> "engine_start", err |-> "none"]
    /\ UNCHANGED <<reflVars, stopVars, overrides, inited, pos_data, active_orderids, sendVars,
                   cancelVars, terminal_seen, trade_log>>

EngineStop ==
    /\ trading
    /\ trading' = FALSE
    /\ ca_trading' = FALSE
    /\ last' = [op |-> "engine_stop", err |-> "none"]
    /\ UNCHANGED <<reflVars, stopVars, overrides, inited, pos_data, active_orderids, sendVars,
                   ca_pc, it_used, it_todo, ca_snapshot, ca_log,
                   terminal_seen, trade_log>>

\* Engine delivers a trade event: strategy.update_trade(trade)
UpdateTrade(trade) ==
    /\ Len(trade_log) < MaxTrades
    /\ LET r == update_trade(pos_data, trade)
       IN /\ pos_data' = r.pos_data
          /\ last' = [op |-> "update_trade", err |-> "none", trade |-> trade,
                      pre_pos |-> pos_data, hooks |-> r.hooks]
    /\ trade_log' = Append(trade_log, trade)
    /\ UNCHANGED <<reflVars, stopVars, overrides, flagVars, active_orderids, sendVars, cancelVars,
                   terminal_seen>>

\* Strategy calls send_order (or buy/sell/short/cover) and is turned away.
SendOrderReject(via, req) ==
    /\ so_pc = "idle"
    /\ send_order_rejects(trading)
    /\ last' = [op |-> "send_order", err |-> "none", via |-> via,
                call |-> req, pre_active |-> active_orderids,
                engine |-> <<>>, ret |-> <<>>]
    /\ UNCHANGED <<reflVars, stopVars, overrides, flagVars, pos_data, active_orderids, sendVars,
                   cancelVars, terminal_seen, trade_log>>

\* send_order up to line 174: the engine is asked and returns n identifiers.
SendOrderCall(via, req, n) ==
    /\ so_pc = "idle"
    /\ ~send_order_rejects(trading)
    /\ engine_next + n - 1 <= MaxOrders
    /\ so_pc' = "called"
    /\ so_ids' = [i \in 1..n |-> engine_next + i - 1]
    /\ engine_next' = engine_next + n
    /\ last' = [op |-> "send_order:engine", err |-> "none", via |-> via,
                call |-> req, pre_active |-> active_orderids,
                engine |-> <<engine_request(via, req)>>, ret |-> so_ids']
    /\ UNCHANGED <<reflVars, stopVars, overrides, flagVars, pos_data, active_orderids, cancelVars,
                   terminal_seen, trade_log>>

\* send_order, lines 178-180. An identifier added while cancel_all iterates
\* lands ahead of the iterator or behind it, as its hash decides.
SendOrderReturn(ahead) ==
    /\ so_pc = "called"
    /\ active_orderids' = send_order_record(active_orderids, so_ids)
    /\ so_pc' = "idle"
    /\ so_ids' = <<>>
    /\ IF ca_pc = "iter"
       THEN /\ ahead \subseteq Range(so_ids)
            /\ it_todo' = it_todo \cup ahead
       ELSE /\ ahead = {}
            /\ it_todo' = it_todo
    /\ last' = [op |-> "send_order:return", err |-> "none",
                pre_active |-> active_orderids, engine_ret |-> so_ids,
                ret |-> so_ids]
    /\ UNCHANGED <<reflVars, stopVars, overrides, flagVars, pos_data, engine_next, ca_pc, it_used,
                   ca_snapshot, ca_log, ca_trading, terminal_seen, trade_log>>

\* Engine delivers an order-status event. entry = "bound" is
\* strategy.on_order(order); entry = "template" is the function the template
\* class defines, StrategyTemplate.on_order(strategy, order), which is the
\* same call unless a subclass defines on_order.
OnOrder(entry, order) ==
    /\ entry = "template" => overrides
    /\ order.vt_orderid \in {ForeignId} \cup (1..(engine_next - 1))
    /\ LET r == IF entry = "bound"
                THEN bound_on_order(active_orderids, order, overrides)
                ELSE template_on_order(active_orderids, order, overrides, 1)
       IN /\ active_orderids' = r.active
          /\ last' = [op |-> "on_order", err |-> r.err, entry |-> entry,
                      order |-> order, pre_active |-> active_orderids,
                      hooks |-> r.hooks, updates |-> r.updates]
    /\ terminal_seen' = IF is_active(order) \/ order.vt_orderid = ForeignId
                        THEN terminal_seen
                        ELSE terminal_seen \cup {order.vt_orderid}
    /\ UNCHANGED <<reflVars, stopVars, overrides, flagVars, pos_data, sendVars, cancelVars,
                   trade_log>>

\* Variant of cancel_order that also takes the strategy out of trading.
CancelOrder_stops(vt_orderid) ==
    /\ last' = [op |-> "cancel_order", err |-> "none", id |-> vt_orderid,
                pre_active |-> active_orderids,
                engine |-> cancel_order(trading, vt_orderid)]
    /\ trading' = FALSE
    /\ UNCHANGED <<reflVars, stopVars, overrides, inited, pos_data, active_orderids, sendVars,
                   cancelVars, terminal_seen, trade_log>>

\* Strategy calls cancel_order(vt_orderid).
CancelOrder(vt_orderid) ==
    /\ last' = [op |-> "cancel_order", err |-> "none", id |-> vt_orderid,
                pre_active |-> active_orderids,
                engine |-> cancel_order(trading, vt_orderid)]
    /\ UNCHANGED <<reflVars, stopVars, overrides, flagVars, pos_data, active_orderids, sendVars,
                   cancelVars, terminal_seen, trade_log>>

\* The record cancel_all leaves when it ends.
cancel_all_end(err, snapshot, requests, throughout) ==
    [op |-> "cancel_all", err |-> err, pre_active |-> active_orderids,
     engine |-> <<>>, snapshot |-> snapshot, requests |-> requests,
     trading_throughout |-> throughout]

\* Strategy calls cancel_all, lines 189-190: the for statement creates an
\* iterator over the live set, which remembers the size of the set, and takes
\* the first entry from it at once; the entry is handed to cancel_order. The
\* call is made between two submissions, not inside one. The order of the
\* entries is the hash table's.
CancelAllBegin ==
    /\ ca_pc = "idle"
    /\ so_pc = "idle"
    /\ IF active_orderids = {}
       THEN /\ last' = cancel_all_end("none", {}, <<>>, trading)
            /\ UNCHANGED cancelVars
       ELSE \E vt_orderid \in active_orderids :
            /\ ca_pc' = "iter"
            /\ it_used' = Cardinality(active_orderids)
            /\ it_todo' = active_orderids \ {vt_orderid}
            /\ ca_snapshot' = active_orderids
            /\ ca_log' = cancel_order(trading, vt_orderid)
            /\ ca_trading' = trading
            /\ last' = [op |-> "cancel_all:step", err |-> "none",
                        id |-> vt_orderid, pre_active |-> active_orderids,
                        engine |-> cancel_order(trading, vt_orderid)]
    /\ UNCHANGED <<reflVars, stopVars, overrides, flagVars, pos_data, active_orderids, sendVars,
                   terminal_seen, trade_log>>

\* cancel_all, lines 189-190: the for loop asks the iterator for the next
\* entry. The iterator raises RuntimeError when the set's size is not the one
\* it remembers, ends the loop when no entry lies ahead, and otherwise yields
\* an entry, which is handed to cancel_order.
CancelAllStep ==
    /\ ca_pc = "iter"
    /\ IF Cardinality(active_orderids) # it_used
       THEN /\ last' = cancel_all_end("RuntimeError", ca_snapshot, ca_log, ca_trading)
            /\ ca_pc' = "idle"
            /\ it_used' = 0
            /\ it_todo' = {}
            /\ ca_snapshot' = {}
            /\ ca_log' = <<>>
            /\ ca_trading' = FALSE
       ELSE IF it_todo \cap active_orderids = {}
       THEN /\ last' = cancel_all_end("none", ca_snapshot, ca_log, ca_trading)
            /\ ca_pc' = "idle"
            /\ it_used' = 0
            /\ it_todo' = {}
            /\ ca_snapshot' = {}
            /\ ca_log' = <<>>
            /\ ca_trading' = FALSE
       ELSE \E vt_orderid \in it_todo \cap active_orderids :
            /\ it_todo' = it_todo \ {vt_orderid}
            /\ ca_log' = ca_log \o cancel_order(trading, vt_orderid)
            /\ last' = [op |-> "cancel_all:step", err |-> "none",
                        id |-> vt_orderid, pre_active |-> active_orderids,
                        engine |-> cancel_order(trading, vt_orderid)]
            /\ UNCHANGED <<ca_pc, it_used, ca_snapshot, ca_trading>>
    /\ UNCHANGED <<reflVars, stopVars, overrides, flagVars, pos_data, active_orderids, sendVars,
                   terminal_seen, trade_log>>

\* Engine or strategy calls update_setting(setting).
UpdateSetting(setting) ==
    /\ attrs' = update_setting(attrs, setting)
    /\ last' = [op |-> "update_setting", err |-> "none", setting |-> setting,
                pre_attrs |-> attrs]
    /\ UNCHANGED <<vt_symbols, variables_attr, stopVars, overrides, flagVars,
                   pos_data, active_orderids, sendVars, cancelVars,
                   terminal_seen, trade_log>>

\* Engine calls get_parameters(), get_class_parameters(), get_variables() or
\* get_data().
Accessor(name) ==
    /\ LET r == CASE name = "get_parameters" ->
                       [err |-> "none", ret |-> get_parameters(attrs)]
                  [] name = "get_class_parameters" ->
                       [err |-> "none", ret |-> get_class_parameters]
                  [] name = "get_variables" ->
                       get_variables(variables_attr, attrs, inited, trading, pos_data)
                  [] name = "get_data" ->
                       get_data(variables_attr, attrs, vt_symbols, inited,
                                trading, pos_data)
       IN last' = [op |-> name, err |-> r.err, ret |-> r.ret]
    /\ UNCHANGED <<reflVars, stopVars, overrides, flagVars, pos_data,
                   active_orderids, sendVars, cancelVars, terminal_seen,
                   trade_log>>

\* The attributes of the instance that no side channel may touch.
instance_state ==
    [inited |-> inited, trading |-> trading, pos_data |-> pos_data,
     active_orderids |-> active_orderids, attrs |-> attrs,
     variables_attr |-> variables_attr]

\* Strategy calls put_event().
PutEvent ==
    /\ last' = [op |-> "put_event", err |-> "none", pre |-> instance_state,
                engine |-> put_event(inited)]
    /\ UNCHANGED <<reflVars, stopVars, overrides, flagVars, pos_data,
                   active_orderids, sendVars, cancelVars, terminal_seen,
                   trade_log>>

\* Strategy calls sync_data().
SyncData ==
    /\ last' = [op |-> "sync_data", err |-> "none", pre |-> instance_state,
                engine |-> sync_data(trading)]
    /\ UNCHANGED <<reflVars, stopVars, overrides, flagVars, pos_data,
                   active_orderids, sendVars, cancelVars, terminal_seen,
                   trade_log>>

Accessors == {"get_parameters", "get_class_parameters", "get_variables", "get_data"}

\* The reflection path: construction from any setting, update_setting, the
\* accessors and the side channels.
NextReflect ==
    \/ EngineInit
    \/ EngineStart
    \/ EngineStop
    \/ \E setting \in Settings : UpdateSetting(setting)
    \/ \E name \in Accessors : Accessor(name)
    \/ PutEvent
    \/ SyncData

SpecReflect == InitReflect /\ [][NextReflect]_vars

\* The trade path: lifecycle and trade events.
NextTrade ==
    \/ EngineInit
    \/ EngineStart
    \/ EngineStop
    \/ \E trade \in Trades : UpdateTrade(trade)

SpecTrade == Init /\ [][NextTrade]_vars

\* The order path: lifecycle, submissions, order events and cancellations.
Next ==
    \/ EngineInit
    \/ EngineStart
    \/ EngineStop
    \/ \E c \in Calls : SendOrderReject(c[1], c[2])
    \/ \E c \in Calls, n \in SplitSizes : SendOrderCall(c[1], c[2], n)
    \/ \E ahead \in SUBSET EngineIds : SendOrderReturn(ahead)
    \/ \E entry \in {"bound", "template"}, order \in Orders : OnOrder(entry, order)
    \/ \E vt_orderid \in AllIds : CancelOrder(vt_orderid)
    \/ CancelAllBegin
    \/ CancelAllStep

Spec == Init /\ [][Next]_vars

\* The lists of all StopOrder objects, by stop order.
all_vt_orderids == [i \in DOMAIN stop_orders |-> vt_orderids_of(stop_orders, stop_lists, i)]

\* Somebody constructs a StopOrder.
NewStopOrder(direction, price, status) ==
    /\ Len(stop_orders) < MaxStops
    /\ LET r == StopOrder(stop_lists, direction, price, Len(stop_orders) + 1, status)
       IN /\ stop_orders' = Append(stop_orders, r.obj)
          /\ stop_lists' = r.heap
    /\ last' = [op |-> "StopOrder", err |-> "none", id |-> Len(stop_orders) + 1,
                status |-> status, pre_lists |-> all_vt_orderids]
    /\ UNCHANGED <<reflVars, overrides, flagVars, pos_data, active_orderids,
                   sendVars, cancelVars, terminal_seen, trade_log>>

\* Somebody appends an order identifier, not yet in any list, to the
\* vt_orderids of stop order i.
AppendVtOrderid(i, vt_orderid) ==
    /\ i \in DOMAIN stop_orders
    /\ \A l \in DOMAIN stop_lists : vt_orderid \notin Range(stop_lists[l])
    /\ stop_lists' = [stop_lists EXCEPT ![stop_orders[i].vt_orderids] =
                                           Append(@, vt_orderid)]
    /\ last' = [op |-> "append", err |-> "none", id |-> i,
                vt_orderid |-> vt_orderid, pre_lists |-> all_vt_orderids]
    /\ UNCHANGED <<stop_orders, reflVars, overrides, flagVars, pos_data,
                   active_orderids, sendVars, cancelVars, terminal_seen,
                   trade_log>>

\* The StopOrder data class on its own: construction and list appends.
NextStopOrder ==
    \/ \E direction \in Directions \ {"NET"}, price \in TriggerPrices,
          status \in StatusArguments : NewStopOrder(direction, price, status)
    \/ \E i \in StopIds, vt_orderid \in EngineIds : AppendVtOrderid(i, vt_orderid)

SpecStopOrder == Init /\ [][NextStopOrder]_vars

\* The stop orders that market data at `price` triggers.
triggered_by(price) ==
    {i \in DOMAIN stop_orders : stop_triggers(stop_orders[i], price)}

\* The manager receives market data at `price`: every stop order that
\* triggers becomes Triggered and gets the identifiers of the n real orders
\* the engine returns for it.
Tick(price, n) ==
    LET hit == triggered_by(price)
        rank(i) == Cardinality({j \in hit : j < i})
        ids(i) == [k \in 1..n |-> engine_next + rank(i) * n + k - 1]
    IN /\ engine_next + Cardinality(hit) * n - 1 <= MaxOrders
       /\ stop_orders' = [i \in DOMAIN stop_orders |->
                             IF i \in hit
                             THEN [stop_orders[i] EXCEPT !.status = "TRIGGERED"]
                             ELSE stop_orders[i]]
       /\ stop_lists' = [l \in DOMAIN stop_lists |->
                            IF \E i \in hit : stop_orders[i].vt_orderids = l
                            THEN stop_lists[l] \o
                                   ids(CHOOSE i \in hit : stop_orders[i].vt_orderids = l)
                            ELSE stop_lists[l]]
       /\ engine_next' = engine_next + Cardinality(hit) * n
       /\ last' = [op |-> "tick", err |-> "none", price |-> price,
                   triggered |-> hit, pre_lists |-> all_vt_orderids]
       /\ UNCHANGED <<reflVars, overrides, flagVars, pos_data, active_orderids,
                      so_pc, so_ids, cancelVars, terminal_seen, trade_log>>

\* The strategy cancels stop order i: only a Waiting one becomes Cancelled.
CancelStopOrder(i) ==
    /\ i \in DOMAIN stop_orders
    /\ stop_orders' = IF stop_orders[i].status = "WAITING"
                      THEN [stop_orders EXCEPT ![i].status = "CANCELLED"]
                      ELSE stop_orders
    /\ last' = [op |-> "cancel_stop_order", err |-> "none", id |-> i,
                pre_lists |-> all_vt_orderids]
    /\ UNCHANGED <<stop_lists, reflVars, overrides, flagVars, pos_data,
                   active_orderids, sendVars, cancelVars, terminal_seen,
                   trade_log>>

\* The conditional-order manager: stop orders are requested, market data
\* arrives, stop orders are cancelled.
NextStop ==
    \/ \E direction \in Directions \ {"NET"}, price \in TriggerPrices :
          NewStopOrder(direction, price, "default")
    \/ \E price \in TickPrices, n \in SplitSizes \ {0} : Tick(price, n)
    \/ \E i \in StopIds : CancelStopOrder(i)

SpecStop == Init /\ [][NextStop]_vars

\* Every operation of the template on one instance: lifecycle, trades, the
\* order path, the accessors and the side channels.
NextFrame ==
    \/ EngineInit
    \/ EngineStart
    \/ EngineStop
    \/ \E trade \in FrameTrades : UpdateTrade(trade)
    \/ \E c \in FrameCalls : SendOrderReject(c[1], c[2])
    \/ \E c \in FrameCalls : SendOrderCall(c[1], c[2], MaxOrders)
    \/ \E ahead \in SUBSET EngineIds : SendOrderReturn(ahead)
    \/ \E order \in FrameOrders : OnOrder("bound", order)
    \/ \E vt_orderid \in FrameIds : CancelOrder(vt_orderid)
    \/ CancelAllBegin
    \/ CancelAllStep
    \/ \E name \in Accessors : Accessor(name)
    \/ PutEvent
    \/ SyncData

SpecFrame == Init /\ [][NextFrame]_vars

\* ---------------------------------------------------------------- claims
\* Sum of the volumes of the trades of `log` on instrument K that are LONG
\* (long = TRUE) or that are not LONG (long = FALSE).
RECURSIVE VolumeOf(_, _, _)
VolumeOf(log, K, long) ==
    IF log = <<>>
    THEN 0
    ELSE LET t == Head(log)
             counts == t.vt_symbol = K /\ ((t.direction = "LONG") <=> long)
         IN (IF counts THEN t.volume ELSE 0) + VolumeOf(Tail(log), K, long)

\* The signed volume of one trade: positive for LONG, negative otherwise.
SignedVolume(trade) ==
    IF trade.direction = "LONG" THEN trade.volume ELSE 0 - trade.volume

\* C1: after any sequence of trade events, the position of every instrument K
\* is 0 plus the volumes of the LONG trades on K minus the volumes of the
\* other trades on K, and a trade leaves the position of every other
\* instrument as it was.
C1_PositionIsSignedSum ==
    /\ \A K \in Symbols :
          get_pos(pos_data, K) =
             0 + VolumeOf(trade_log, K, TRUE) - VolumeOf(trade_log, K, FALSE)
    /\ last.op = "update_trade" =>
          \A K \in Symbols \ {last.trade.vt_symbol} :
             get_pos(pos_data, K) = get_pos(last.pre_pos, K)

\* C1 witness: trades on both instruments, LONG and not LONG, were delivered.
C1_Witness ==
    /\ Len(trade_log) = 3
    /\ \E i, j \in 1..Len(trade_log) :
          /\ trade_log[i].vt_symbol = trade_log[j].vt_symbol
          /\ trade_log[i].direction = "LONG"
          /\ trade_log[j].direction = "SHORT"
    /\ \E i, j \in 1..Len(trade_log) :
          trade_log[i].vt_symbol # trade_log[j].vt_symbol

\* C2: a submission made while trading is false returns the empty sequence,
\* sends nothing to the engine, leaves active_orderids as it was and raises
\* nothing.
C2_RejectedWhileNotTrading ==
    (last.op \in {"send_order", "send_order:engine"} /\ ~trading) =>
        /\ last.ret = <<>>
        /\ last.engine = <<>>
        /\ active_orderids = last.pre_active
        /\ last.err = "none"
        /\ so_pc = "idle"

\* C2 witness: buy was turned away after a stop, with an order still tracked.
C2_Witness ==
    /\ last.op = "send_order"
    /\ last.via = "buy"
    /\ ~trading
    /\ active_orderids # {}

\* C3: an order event with a non-active status, handled by the on_order the
\* template class defines, takes the identifier out of active_orderids when
\* it is there, leaves the set alone when it is not, and raises nothing.
C3_TerminalStatusRemovesOnce ==
    (/\ last.op = "on_order"
     /\ last.entry = "template" \/ ~overrides
     /\ ~is_active(last.order)) =>
        /\ active_orderids = last.pre_active \ {last.order.vt_orderid}
        /\ last.err = "none"

\* C4: a cancel_all during which trading stayed true sends the engine exactly
\* one cancel request for each identifier that was in active_orderids when it
\* was called, and raises nothing.
C4_CancelAllCoversSnapshot ==
    (last.op = "cancel_all" /\ last.trading_throughout) =>
        /\ last.err = "none"
        /\ Range(last.requests) = last.snapshot
        /\ Len(last.requests) = Cardinality(last.snapshot)

\* C5: when send_order returns after asking the engine, every identifier the
\* engine returned is in active_orderids, the caller gets the engine's
\* sequence, and the identifiers that were in the set are still in it.
C5_ReturnedIdsAreRecorded ==
    last.op = "send_order:return" =>
        /\ Range(last.engine_ret) \subseteq active_orderids
        /\ last.ret = last.engine_ret
        /\ last.pre_active \subseteq active_orderids

\* C5 witness: a submission returned an identifier while another one was
\* already tracked.
C5_Witness ==
    /\ last.op = "send_order:return"
    /\ last.ret # <<>>
    /\ last.pre_active # {}
    /\ ~(Range(last.ret) \subseteq last.pre_active)

\* C6: every identifier in active_orderids was returned by the engine and has
\* had no non-active status delivered.
C6_NoLeakedIdentifier ==
    active_orderids \subseteq (1..(engine_next - 1)) \ terminal_seen

\* C7: when an order event with a non-active status arrives for a tracked
\* identifier, no invocation of the subclass's on_order finds the identifier
\* still in active_orderids.
C7_HookSeesIdentifierRemoved ==
    (/\ last.op = "on_order"
     /\ ~is_active(last.order)
     /\ last.order.vt_orderid \in last.pre_active) =>
        \A i \in 1..Len(last.hooks) : ~last.hooks[i]

\* C8: update_trade invokes the on_trade hook exactly once, and the hook finds
\* the position map as update_trade leaves it: the instrument's position is
\* the one before the trade plus the trade's signed volume.
C8_TradeHookSeesNewPosition ==
    last.op = "update_trade" =>
        /\ Len(last.hooks) = 1
        /\ last.hooks[1] = pos_data
        /\ get_pos(last.hooks[1], last.trade.vt_symbol) =
              get_pos(last.pre_pos, last.trade.vt_symbol) + SignedVolume(last.trade)

\* C8 witness: a SHORT trade arrived for an instrument with a position.
C8_Witness ==
    /\ last.op = "update_trade"
    /\ last.trade.direction = "SHORT"
    /\ get_pos(last.pre_pos, last.trade.vt_symbol) # 0
    /\ Len(last.hooks) = 1

\* C9: cancel_order and every step of cancel_all send the engine a cancel
\* request only while trading is true, and leave active_orderids as it was.
C9_CancelOnlyWhileTrading ==
    last.op \in {"cancel_order", "cancel_all:step", "cancel_all"} =>
        /\ ~trading => last.engine = <<>>
        /\ active_orderids = last.pre_active

\* C9 witness: cancel_all reached a tracked identifier after a stop.
C9_Witness ==
    /\ last.op = "cancel_all:step"
    /\ ~trading
    /\ last.id \in active_orderids
    /\ last.engine = <<>>

\* C10: once every identifier the engine returned has had a non-active status
\* delivered and no submission is under way, active_orderids is empty.
C10_DrainsWhenAllTerminal ==
    (/\ so_pc = "idle"
     /\ engine_next > 1
     /\ (1..(engine_next - 1)) \subseteq terminal_seen) =>
        active_orderids = {}

\* C11: self.variables is the list inited, trading, pos_data followed by the
\* names the class declares, and get_variables and get_data return, without
\* an error, a snapshot that maps each of those names to its current value.
C11_VariablesSnapshot ==
    /\ variables_attr =
          [none |-> FALSE,
           names |-> <<"inited", "trading", "pos_data">> \o ClassVariables]
    /\ last.op = "get_variables" =>
          /\ last.err = "none"
          /\ last.ret = [n \in {"inited", "trading", "pos_data"} \cup Range(ClassVariables) |->
                           variable_value(attrs, n, inited, trading, pos_data)]
    /\ last.op = "get_data" => last.err = "none"

\* A construction input the spec calls malformed: the setting lacks a declared
\* parameter, or the instrument list holds a key that is no instrument.
Malformed(setting, syms) ==
    \/ ~(Range(ClassParameters) \subseteq DOMAIN setting)
    \/ ~(Range(syms) \subseteq Symbols)

\* C13: construction from malformed input ends in a configuration error, and
\* no other operation raises an error.
C13_MalformedConstructionFails ==
    /\ (last.op = "__init__" /\ Malformed(last.setting, vt_symbols)) =>
           last.err = "ConfigurationError"
    /\ last.op # "__init__" => last.err = "none"

\* C14: construction and update_setting give each declared parameter that is
\* a key of the setting the setting's value, leave every other declared
\* parameter as it was (its class default when never set), create no
\* attribute for a key that is not declared, and raise nothing.
C14_SettingOverwritesDeclaredOnly ==
    last.op \in {"__init__", "update_setting"} =>
        /\ \A n \in Range(ClassParameters) \cap DOMAIN last.setting :
              n \in DOMAIN attrs /\ attrs[n] = last.setting[n]
        /\ \A n \in Range(ClassParameters) \ DOMAIN last.setting :
              /\ n \in DOMAIN attrs <=> n \in DOMAIN last.pre_attrs
              /\ getattr(attrs, n) = getattr(last.pre_attrs, n)
        /\ DOMAIN attrs \subseteq Range(ClassParameters)
        /\ last.err = "none"

\* C14 witness: update_setting got a declared parameter, an undeclared key,
\* and lacked a parameter that an earlier setting had set.
C14_Witness ==
    /\ last.op = "update_setting"
    /\ DOMAIN last.setting = {"fast_window", "unknown_key"}
    /\ "slow_window" \in DOMAIN last.pre_attrs
    /\ "fast_window" \in DOMAIN last.pre_attrs
    /\ last.pre_attrs["fast_window"] # last.setting["fast_window"]
    /\ attrs["slow_window"] # ClassDefaults["slow_window"]

\* The send_order arguments that stand for a call of buy, sell, short or
\* cover with the arguments `call`.
AsSendOrder(via, call) ==
    LET pair == CASE via = "buy" -> <<"LONG", "OPEN">>
                  [] via = "sell" -> <<"SHORT", "CLOSE">>
                  [] via = "short" -> <<"SHORT", "OPEN">>
                  [] via = "cover" -> <<"LONG", "CLOSE">>
    IN [call EXCEPT !.direction = pair[1], !.offset = pair[2]]

\* C15: a call of buy, sell, short or cover does what send_order does with
\* (LONG, OPEN), (SHORT, CLOSE), (SHORT, OPEN), (LONG, CLOSE) and the same
\* other arguments: turned away exactly when trading is false, with no
\* request, an empty result and the set untouched; otherwise one engine
\* request, the one of that send_order call, whose identifiers are the result.
C15_WrappersForward ==
    (last.op \in {"send_order", "send_order:engine"} /\ last.via # "send_order") =>
        /\ last.op = "send_order" =>
              /\ ~trading
              /\ last.engine = <<>>
              /\ last.ret = <<>>
              /\ active_orderids = last.pre_active
        /\ last.op = "send_order:engine" =>
              /\ trading
              /\ last.engine =
                    <<engine_request("send_order", AsSendOrder(last.via, last.call))>>
              /\ last.ret = so_ids
              /\ so_pc = "called"

\* C15 witness: sell reached the engine, which returned an identifier.
C15_Witness ==
    /\ last.op = "send_order:engine"
    /\ last.via = "sell"
    /\ last.engine[1].direction = "SHORT"
    /\ last.engine[1].offset = "CLOSE"
    /\ last.ret # <<>>

\* C16: one order callback delivered to strategy.on_order returns normally
\* after the removal step of lines 139-140 has run once and the subclass's
\* on_order has been called once, with or without a subclass override.
C16_OrderCallbackRunsOnce ==
    (last.op = "on_order" /\ last.entry = "bound") =>
        /\ last.err = "none"
        /\ last.updates = 1
        /\ Len(last.hooks) = 1

\* C19: put_event makes one put_strategy_event call on the engine when inited
\* is true and none otherwise; sync_data makes one sync_strategy_data call
\* when trading is true and none otherwise; neither changes the instance.
C19_SideChannelsGated ==
    /\ last.op = "put_event" =>
          /\ inited => last.engine = <<"put_strategy_event">>
          /\ ~inited => last.engine = <<>>
          /\ instance_state = last.pre
    /\ last.op = "sync_data" =>
          /\ trading => last.engine = <<"sync_strategy_data">>
          /\ ~trading => last.engine = <<>>
          /\ instance_state = last.pre

\* C19 witness: put_event forwarded on an instance that is inited and not
\* trading, where sync_data would be silent.
C19_Witness ==
    /\ last.op = "put_event"
    /\ inited
    /\ ~trading
    /\ last.engine = <<"put_strategy_event">>

\* The operations by which the engine drives the lifecycle.
EngineOps == {"engine_init", "engine_start", "engine_stop"}

\* A freshly constructed instance.
Fresh ==
    /\ ~inited
    /\ ~trading
    /\ pos_data = <<>>
    /\ \A s \in Symbols : get_pos(pos_data, s) = 0
    /\ active_orderids = {}

\* C17: the instance __init__ leaves has inited and trading false, no
\* position and no active order; and every step that is not one of the
\* engine's lifecycle operations leaves inited and trading as they were.
C17_OnlyEngineSetsFlags ==
    /\ [](last.op = "__init__" => Fresh)
    /\ [][last'.op \in EngineOps \/ (inited' = inited /\ trading' = trading)]_vars

\* C17 witness: cancel_all ran to its end on a started strategy, which is
\* still inited and trading.
C17_Witness ==
    /\ last.op = "cancel_all"
    /\ last.err = "none"
    /\ inited
    /\ trading
    /\ trade_log # <<>>

\* The operations of the order path.
OrderOps ==
    {"send_order", "send_order:engine", "send_order:return", "on_order",
     "cancel_order", "cancel_all", "cancel_all:step"}

\* C18: update_trade changes the position of the trade's instrument only and
\* leaves active_orderids alone; on_order, send_order, cancel_order and
\* cancel_all leave pos_data alone; on_order with an active status leaves
\* active_orderids alone.
C18_TrackersIndependent ==
    [][/\ last'.op = "update_trade" =>
            /\ active_orderids' = active_orderids
            /\ \A s \in Symbols \ {last'.trade.vt_symbol} :
                   get_pos(pos_data', s) = get_pos(pos_data, s)
       /\ last'.op \in OrderOps => pos_data' = pos_data
       /\ (last'.op = "on_order" /\ is_active(last'.order)) =>
            active_orderids' = active_orderids]_vars

\* C18 witness: a fill arrived while an order was active and the other
\* instrument had a position; both are as they were.
C18_Witness ==
    /\ last.op = "update_trade"
    /\ active_orderids # {}
    /\ \E s \in DOMAIN last.pre_pos \ {last.trade.vt_symbol} :
          last.pre_pos[s] # 0 /\ pos_data[s] = last.pre_pos[s]

\* C12: a stop order that is Cancelled or Triggered keeps its status and its
\* list of real-order identifiers in every later step, whatever the price;
\* so a Waiting one becomes Triggered at most once.
C12_StopOrderTerminal ==
    [][\A i \in DOMAIN stop_orders :
          stop_orders[i].status \in {"CANCELLED", "TRIGGERED"} =>
              /\ stop_orders'[i].status = stop_orders[i].status
              /\ vt_orderids_of(stop_orders', stop_lists', i) =
                    vt_orderids_of(stop_orders, stop_lists, i)]_vars

\* C12 witness: market data that meets the trigger of a Cancelled buy stop
\* arrived and triggered another stop order; the Cancelled one has no
\* identifiers.
C12_Witness ==
    /\ last.op = "tick"
    /\ last.triggered # {}
    /\ \E i \in DOMAIN stop_orders :
          /\ stop_orders[i].status = "CANCELLED"
          /\ stop_orders[i].direction = "LONG"
          /\ last.price >= stop_orders[i].price
          /\ vt_orderids_of(stop_orders, stop_lists, i) = <<>>

\* C20: a StopOrder constructed without a status is Waiting, has an empty
\* vt_orderids and an empty reason; and an append to one StopOrder's list
\* leaves the list of every other StopOrder as it was.
C20_StopOrderDefaults ==
    /\ (last.op = "StopOrder" /\ last.status = "default") =>
          /\ stop_orders[last.id].status = "WAITING"
          /\ vt_orderids_of(stop_orders, stop_lists, last.id) = <<>>
          /\ stop_orders[last.id].reason = ""
    /\ last.op = "append" =>
          \A j \in DOMAIN stop_orders \ {last.id} :
              vt_orderids_of(stop_orders, stop_lists, j) = last.pre_lists[j]

\* C20 witness: of two StopOrder objects one got an identifier appended and
\* the other, constructed before, still has none.
C20_Witness ==
    /\ last.op = "append"
    /\ Len(stop_orders) = MaxStops
    /\ vt_orderids_of(stop_orders, stop_lists, last.id) # <<>>
    /\ \E j \in DOMAIN stop_orders \ {last.id} :
          /\ stop_orders[j].status = "WAITING"
          /\ vt_orderids_of(stop_orders, stop_lists, j) = <<>>
====
